---- MODULE Spec2Model ----
(***************************************************************************)
(* Training / evaluation orchestration of mortality_classification.py:     *)
(* train_test() = train() followed by test(), with the early stopping      *)
(* controller (models/early_stopper.EarlyStopping) driven once per epoch.  *)
(*                                                                         *)
(* Real-valued metrics are kept as integers in hundredths (0.85 = 85).     *)
(* Model parameters are identified by the run that produced them and the   *)
(* number of optimizer steps applied to them.                              *)
(***************************************************************************)
EXTENDS Integers, Sequences, FiniteSets, TLC

\* ------------------------------------------------------------------ bounds
MaxEpochs == 3
MaxPatience == 2
TrainBatches == 2
EvalBatches == 2
ScenarioExtraEpochs == 1

\* ------------------------------------------------------------------ inputs
KnownModelTypes == {"grud", "ipnets", "seft", "transformer", "mamba"}
InputModelTypes == {"mamba", "lstm"}
KnownCriteria == {"auroc", "auprc", "auprc+auroc", "loss"}
InputCriteria == KnownCriteria \cup {"accuracy"}
MetricValues == {50, 100}
LossValues == {70, 90}
\* The per-batch training loss only reaches the log; one value stands for it.
TrainLossValues == {80}
ScenarioLosses == <<90, 70, 80, 85, 95>>

\* ------------------------------------------------------------------- files
\* Variant: the controller saves under another file name.
EarlyStoppingPath_Renamed == "best_model.pt"
EarlyStoppingPath == "checkpoint.pt"
TestCheckpointPath == "checkpoint.pt"
TrainingLogPath == "training_log.csv"
TrainCurvesPath == "train_curves.jpg"
TestResultsPath == "test_results.json"

LogHeader == <<"epoch", "train_loss", "val_loss", "val_roc_auc_score">>

VARIABLES
    epochs, patience, model_type, early_stop_criteria,  \* arguments of train_test
    pc,             \* position of the single thread of control
    model,          \* the model object train() builds and test() receives
    early_stopping, \* the EarlyStopping object
    epoch,          \* loop variable of `for epoch in range(epochs)`, -1 before
    batch,          \* batches consumed in the current pass
    loss_list, accum_loss, val_loss, auc_score, aupr_score,
    files,          \* the output directory: path -> content
    writes,         \* path -> times written by this run
    steps,          \* optimizer.step() calls
    train_fwd,      \* training forward passes
    val_passes,     \* validation passes started
    submitted,      \* the calls early_stopping(value, model) made, in order
    stop_sets,      \* times early_stop was assigned True
    test_fwd,       \* test forward passes
    test_params,    \* parameters the test forward passes ran with
    loads,          \* checkpoints loaded into the model by test()
    failed_at       \* where the exception that ended the run was raised

vars == <<epochs, patience, model_type, early_stop_criteria, pc, model,
          early_stopping, epoch, batch, loss_list, accum_loss, val_loss,
          auc_score, aupr_score, files, writes, steps, train_fwd, val_passes,
          submitted, stop_sets, test_fwd, test_params, loads, failed_at>>

Unbound == [bound |-> FALSE, v |-> 0]
Bound(x) == [bound |-> TRUE, v |-> x]

\* ------------------------------------------------------------ file system
WriteFile(fs, path, data) ==
    [p \in DOMAIN fs \cup {path} |-> IF p = path THEN data ELSE fs[p]]

CountWrite(w, path) ==
    [p \in DOMAIN w \cup {path} |->
        IF p = path THEN (IF p \in DOMAIN w THEN w[p] ELSE 0) + 1 ELSE w[p]]

Written(w, path) == IF path \in DOMAIN w THEN w[path] ELSE 0

StateDict(run, step) == [kind |-> "state_dict", run |-> run, step |-> step]
CorruptFile == [kind |-> "corrupt", run |-> "earlier", step |-> 0]

\* What an earlier run may have left in the output directory.
EarlierOutputs ==
    [p \in {TrainingLogPath, TrainCurvesPath, TestResultsPath} |->
        CASE p = TrainingLogPath -> <<LogHeader, <<1, 80, 90, 50>>>>
          [] p = TrainCurvesPath -> [kind |-> "jpg", points |-> 1]
          [] OTHER -> [kind |-> "json", params |-> StateDict("earlier", 0)]]

InitialDirectories ==
    { << >>,
      WriteFile(EarlierOutputs, TestCheckpointPath, StateDict("earlier", 0)),
      WriteFile(EarlierOutputs, TestCheckpointPath, CorruptFile) }

\* ------------------------------------------------- early stopping controller
\* EarlyStopping(patience, path): no best value, counter 0, flag down.
NewEarlyStopping(p, path) ==
    [patience |-> p, path |-> path, has_best |-> FALSE, best |-> 0,
     counter |-> 0, early_stop |-> FALSE]

\* early_stopping(value, model): the controller after the call, and whether
\* the call saved the model's parameters to its path.
EarlyStoppingCall(es, value) ==
    IF ~es.has_best \/ value < es.best
    THEN [es |-> [es EXCEPT !.has_best = TRUE, !.best = value, !.counter = 0],
          save |-> TRUE]
    ELSE [es |-> [es EXCEPT !.counter = es.counter + 1,
                            !.early_stop = es.early_stop
                                           \/ es.counter + 1 >= es.patience],
          save |-> FALSE]

\* --------------------------------------------------------------- train()
\* Variant: a final else branch that builds a default model.
ModelFactory_Default(mt) == Bound(StateDict("this", 0))

\* The if/elif chain that builds the model: a known type binds `model`,
\* any other leaves the name unbound.
ModelFactory(mt) ==
    IF mt \in KnownModelTypes THEN Bound(StateDict("this", 0)) ELSE Unbound

\* np.mean(loss_list)
RECURSIVE Sum(_)
Sum(s) == IF s = << >> THEN 0 ELSE Head(s) + Sum(Tail(s))

Mean(s) == Sum(s) \div Len(s)

\* Variant: the row carries the 0-based loop variable.
LogRow_ZeroBased(e, train_loss, v_loss, auc) == <<e, train_loss, v_loss, auc>>

\* The row appended to training_log.csv for the epoch.
LogRow(e, train_loss, v_loss, auc) == <<e + 1, train_loss, v_loss, auc>>

\* Variant: the loss handed over as if higher were better.
SubmittedValues_LossNegated(criteria, auc, aupr, v_loss) ==
    IF criteria = "auroc" THEN <<100 - auc>>
    ELSE IF criteria = "auprc" THEN <<100 - aupr>>
    ELSE IF criteria = "auprc+auroc" THEN <<100 - (aupr + auc)>>
    ELSE IF criteria = "loss" THEN <<100 - v_loss>>
    ELSE << >>

\* The if/elif chain that feeds the controller: the values it is called
\* with in one epoch, in order.
SubmittedValues(criteria, auc, aupr, v_loss) ==
    IF criteria = "auroc" THEN <<100 - auc>>
    ELSE IF criteria = "auprc" THEN <<100 - aupr>>
    ELSE IF criteria = "auprc+auroc" THEN <<100 - (aupr + auc)>>
    ELSE IF criteria = "loss" THEN <<v_loss>>
    ELSE << >>

\* Variant: range(epochs + 1).
ForHasNext_OffByOne(e, n) == e + 1 <= n

\* `for epoch in range(epochs)`: is there another iteration after `e`?
ForHasNext(e, n) == e + 1 < n

\* Variant: the stop flag is never looked at.
BreakLoop_Never(es) == FALSE

\* `if early_stopping.early_stop: break`
BreakLoop(es) == es.early_stop

\* Variant: a failed load is swallowed and the in-memory weights are kept.
LoadCheckpoint_Lenient(fs, path) ==
    IF path \in DOMAIN fs /\ fs[path].kind = "state_dict"
    THEN Bound(fs[path])
    ELSE model

\* Variant: the file is read but never loaded into the model.
LoadCheckpoint_Skipped(fs, path) ==
    IF path \in DOMAIN fs /\ fs[path].kind = "state_dict"
    THEN model
    ELSE Unbound

\* test(): what torch.load + load_state_dict make of the checkpoint path.
LoadCheckpoint(fs, path) ==
    IF path \in DOMAIN fs /\ fs[path].kind = "state_dict"
    THEN Bound(fs[path])
    ELSE Unbound

\* The state at the call of train_test(), its arguments and the output
\* directory aside.
Start ==
    /\ pc = "construct"
    /\ model = Unbound
    /\ early_stopping = NewEarlyStopping(0, "")   \* placeholder until line 184
    /\ epoch = -1
    /\ batch = 0
    /\ loss_list = << >>
    /\ accum_loss = Unbound
    /\ val_loss = Unbound
    /\ auc_score = Unbound
    /\ aupr_score = Unbound
    /\ writes = << >>
    /\ steps = 0
    /\ train_fwd = 0
    /\ val_passes = 0
    /\ submitted = << >>
    /\ stop_sets = 0
    /\ test_fwd = 0
    /\ test_params = {}
    /\ loads = 0
    /\ failed_at = "nowhere"

Init ==
    /\ epochs \in 0..MaxEpochs
    /\ patience \in 0..MaxPatience
    /\ model_type \in InputModelTypes
    /\ early_stop_criteria \in InputCriteria
    /\ files \in InitialDirectories
    /\ Start

\* One run of the scenario: criterion `loss`, patience 2, an epoch budget of
\* at least 5, and a validation stream whose losses are ScenarioLosses.
ScenarioInit ==
    /\ epochs \in Len(ScenarioLosses)..(Len(ScenarioLosses) + ScenarioExtraEpochs)
    /\ patience = 2
    /\ model_type \in InputModelTypes
    /\ early_stop_criteria = "loss"
    /\ files \in InitialDirectories
    /\ Start

\* Lines 123-178: probe one batch for the shapes, build the model, count its
\* parameters. An unknown model type leaves `model` unbound and
\* model.parameters() raises.
Construct ==
    /\ pc = "construct"
    /\ model' = ModelFactory(model_type)
    /\ pc' = IF model'.bound THEN "setup" ELSE "error"
    /\ failed_at' = IF model'.bound THEN failed_at ELSE "construct"
    /\ UNCHANGED <<epochs, patience, model_type, early_stop_criteria,
                   early_stopping, epoch, batch, loss_list, accum_loss,
                   val_loss, auc_score, aupr_score, files, writes, steps,
                   train_fwd, val_passes, submitted, stop_sets, test_fwd,
                   test_params,
                   loads>>

\* Lines 179-192: criterion, optimizer, controller, and the log opened "w"
\* with the header.
Setup ==
    /\ pc = "setup"
    /\ early_stopping' = NewEarlyStopping(patience, EarlyStoppingPath)
    /\ files' = WriteFile(files, TrainingLogPath, <<LogHeader>>)
    /\ writes' = CountWrite(writes, TrainingLogPath)
    /\ pc' = "epoch_head"
    /\ UNCHANGED <<epochs, patience, model_type, early_stop_criteria, model,
                   epoch, batch, loss_list, accum_loss, val_loss, auc_score,
                   aupr_score, steps, train_fwd, val_passes, submitted,
                   stop_sets, test_fwd, test_params,
                   loads, failed_at>>

\* Line 194 (and 197-198): the next iteration of the epoch loop, or its end.
EpochHead ==
    /\ pc = "epoch_head"
    /\ IF ForHasNext(epoch, epochs)
       THEN /\ epoch' = epoch + 1
            /\ loss_list' = << >>
            /\ batch' = 0
            /\ pc' = "train"
       ELSE /\ pc' = "curves"
            /\ UNCHANGED <<epoch, loss_list, batch>>
    /\ UNCHANGED <<epochs, patience, model_type, early_stop_criteria, model,
                   early_stopping, accum_loss, val_loss, auc_score,
                   aupr_score, files, writes, steps, train_fwd, val_passes,
                   submitted, stop_sets, test_fwd, test_params,
                   loads, failed_at>>

\* Lines 199-222: one training batch (forward, loss, backward, step); after
\* the last one the mean loss of the epoch.
TrainBatch(l) ==
    /\ pc = "train"
    /\ batch < TrainBatches
    /\ train_fwd' = train_fwd + 1
    /\ steps' = steps + 1
    /\ model' = Bound([model.v EXCEPT !.step = model.v.step + 1])
    /\ loss_list' = Append(loss_list, l)
    /\ batch' = batch + 1
    /\ IF batch' = TrainBatches
       THEN /\ accum_loss' = Bound(Mean(loss_list'))
            /\ pc' = "validate"
       ELSE UNCHANGED <<accum_loss, pc>>
    /\ UNCHANGED <<epochs, patience, model_type, early_stop_criteria,
                   early_stopping, epoch, val_loss, auc_score, aupr_score,
                   files, writes, val_passes, submitted, stop_sets, test_fwd,
                   test_params,
                   loads, failed_at>>

\* Lines 227-255: the validation pass and its metrics.
Validate(auc, aupr, v_loss) ==
    /\ pc = "validate"
    /\ val_passes' = val_passes + 1
    /\ auc_score' = Bound(auc)
    /\ aupr_score' = Bound(aupr)
    /\ val_loss' = Bound(v_loss)
    /\ pc' = "log"
    /\ UNCHANGED <<epochs, patience, model_type, early_stop_criteria, model,
                   early_stopping, epoch, batch, loss_list, accum_loss, files,
                   writes, steps, train_fwd, submitted, stop_sets, test_fwd,
                   test_params,
                   loads, failed_at>>

\* Line 252: roc_auc_score raises when the validation labels hold one class.
ValidateUndefined ==
    /\ pc = "validate"
    /\ val_passes' = val_passes + 1
    /\ pc' = "error"
    /\ failed_at' = "validate"
    /\ UNCHANGED <<epochs, patience, model_type, early_stop_criteria, model,
                   early_stopping, epoch, batch, loss_list, accum_loss,
                   val_loss, auc_score, aupr_score, files, writes, steps,
                   train_fwd, submitted, stop_sets, test_fwd, test_params,
                   loads>>

\* Lines 257-261: the log opened "a", one row appended.
AppendLog ==
    /\ pc = "log"
    /\ files' = WriteFile(files, TrainingLogPath,
                   Append(files[TrainingLogPath],
                          LogRow(epoch, accum_loss.v, val_loss.v, auc_score.v)))
    /\ writes' = CountWrite(writes, TrainingLogPath)
    /\ pc' = "submit"
    /\ UNCHANGED <<epochs, patience, model_type, early_stop_criteria, model,
                   early_stopping, epoch, batch, loss_list, accum_loss,
                   val_loss, auc_score, aupr_score, steps, train_fwd,
                   val_passes, submitted, stop_sets, test_fwd, test_params,
                   loads, failed_at>>

\* The controller called with each value of `vals` in turn.
RECURSIVE Feed(_, _, _, _, _)
Feed(es, fs, w, sub, vals) ==
    IF vals = << >>
    THEN [es |-> es, fs |-> fs, w |-> w, sub |-> sub]
    ELSE LET r == EarlyStoppingCall(es, Head(vals))
         IN  Feed(r.es,
                  IF r.save THEN WriteFile(fs, es.path, model.v) ELSE fs,
                  IF r.save THEN CountWrite(w, es.path) ELSE w,
                  Append(sub, [epoch |-> epoch + 1, value |-> Head(vals),
                               save |-> r.save, params |-> model.v]),
                  Tail(vals))

\* Lines 265-273: the criterion value handed to the controller.
Submit ==
    /\ pc = "submit"
    /\ LET r == Feed(early_stopping, files, writes, submitted,
                     SubmittedValues(early_stop_criteria, auc_score.v,
                                     aupr_score.v, val_loss.v))
       IN  /\ early_stopping' = r.es
           /\ files' = r.fs
           /\ writes' = r.w
           /\ submitted' = r.sub
           /\ stop_sets' = stop_sets
                  + (IF r.es.early_stop /\ ~early_stopping.early_stop
                     THEN 1 ELSE 0)
    /\ pc' = "check"
    /\ UNCHANGED <<epochs, patience, model_type, early_stop_criteria, model,
                   epoch, batch, loss_list, accum_loss, val_loss, auc_score,
                   aupr_score, steps, train_fwd, val_passes, test_fwd,
                   test_params,
                   loads, failed_at>>

\* Lines 275-277: leave the loop when the controller says stop.
CheckStop ==
    /\ pc = "check"
    /\ pc' = IF BreakLoop(early_stopping) THEN "curves" ELSE "epoch_head"
    /\ UNCHANGED <<epochs, patience, model_type, early_stop_criteria, model,
                   early_stopping, epoch, batch, loss_list, accum_loss,
                   val_loss, auc_score, aupr_score, files,
                   writes, steps, train_fwd, val_passes, submitted, stop_sets,
                   test_fwd, test_params,
                   loads, failed_at>>

\* Lines 279-290: the curves read back from the log and saved.
SaveCurves ==
    /\ pc = "curves"
    /\ files' = WriteFile(files, TrainCurvesPath,
                   [kind |-> "jpg", points |-> Len(files[TrainingLogPath]) - 1])
    /\ writes' = CountWrite(writes, TrainCurvesPath)
    /\ pc' = "return"
    /\ UNCHANGED <<epochs, patience, model_type, early_stop_criteria, model,
                   early_stopping, epoch, batch, loss_list, accum_loss,
                   val_loss, auc_score, aupr_score, steps, train_fwd,
                   val_passes, submitted, stop_sets, test_fwd, test_params,
                   loads, failed_at>>

\* Line 292: `return val_loss, model`; val_loss is unbound when no epoch ran.
TrainReturn ==
    /\ pc = "return"
    /\ pc' = IF val_loss.bound THEN "t_load" ELSE "error"
    /\ failed_at' = IF val_loss.bound THEN failed_at ELSE "return"
    /\ UNCHANGED <<epochs, patience, model_type, early_stop_criteria, model,
                   early_stopping, epoch, batch, loss_list, accum_loss,
                   val_loss, auc_score, aupr_score, files, writes, steps,
                   train_fwd, val_passes, submitted, stop_sets, test_fwd,
                   test_params,
                   loads>>

\* ---------------------------------------------------------------- test()
\* Lines 304-315: probe a batch, load the checkpoint into the model.
TestLoad ==
    /\ pc = "t_load"
    /\ LET loaded == LoadCheckpoint(files, TestCheckpointPath)
       IN  IF loaded.bound
           THEN /\ model' = loaded
                /\ loads' = loads + 1
                /\ pc' = "t_forward"
                /\ UNCHANGED failed_at
           ELSE /\ pc' = "error"
                /\ failed_at' = "t_load"
                /\ UNCHANGED <<model, loads>>
    /\ batch' = 0
    /\ UNCHANGED <<epochs, patience, model_type, early_stop_criteria,
                   early_stopping, epoch, loss_list, accum_loss, val_loss,
                   auc_score, aupr_score, files, writes, steps, train_fwd,
                   val_passes, submitted, stop_sets, test_fwd, test_params>>

\* Lines 320-335: one batch of the held-out stream through the model.
TestBatch ==
    /\ pc = "t_forward"
    /\ batch < EvalBatches
    /\ test_fwd' = test_fwd + 1
    /\ test_params' = test_params \cup {model.v}
    /\ batch' = batch + 1
    /\ pc' = IF batch' = EvalBatches THEN "t_report" ELSE pc
    /\ UNCHANGED <<epochs, patience, model_type, early_stop_criteria, model,
                   early_stopping, epoch, loss_list, accum_loss, val_loss,
                   auc_score, aupr_score, files, writes, steps, train_fwd,
                   val_passes, submitted, stop_sets,
                   loads, failed_at>>

\* Lines 336-370: the metrics and the report.
TestReport ==
    /\ pc = "t_report"
    /\ files' = WriteFile(files, TestResultsPath,
                          [kind |-> "json", params |-> model.v])
    /\ writes' = CountWrite(writes, TestResultsPath)
    /\ pc' = "done"
    /\ UNCHANGED <<epochs, patience, model_type, early_stop_criteria, model,
                   early_stopping, epoch, batch, loss_list, accum_loss,
                   val_loss, auc_score, aupr_score, steps, train_fwd,
                   val_passes, submitted, stop_sets, test_fwd, test_params,
                   loads, failed_at>>

\* Line 348: roc_auc_score raises when the held-out labels hold one class.
TestUndefined ==
    /\ pc = "t_report"
    /\ pc' = "error"
    /\ failed_at' = "t_report"
    /\ UNCHANGED <<epochs, patience, model_type, early_stop_criteria, model,
                   early_stopping, epoch, batch, loss_list, accum_loss,
                   val_loss, auc_score, aupr_score, files, writes, steps,
                   train_fwd, val_passes, submitted, stop_sets, test_fwd,
                   test_params,
                   loads>>

Steps ==
    \/ Construct
    \/ Setup
    \/ EpochHead
    \/ \E l \in TrainLossValues : TrainBatch(l)
    \/ ValidateUndefined
    \/ AppendLog
    \/ Submit
    \/ CheckStop
    \/ SaveCurves
    \/ TrainReturn
    \/ TestLoad
    \/ TestBatch
    \/ TestReport
    \/ TestUndefined

Next ==
    \/ Steps
    \/ \E auc \in MetricValues, aupr \in MetricValues, l \in LossValues :
          Validate(auc, aupr, l)

Spec == Init /\ [][Next]_vars

\* The validation loss of epoch e (1-based) in the scenario.
ScenarioLossAt(e) ==
    IF e \in DOMAIN ScenarioLosses THEN {ScenarioLosses[e]} ELSE LossValues

ScenarioNext ==
    \/ Steps
    \/ \E auc \in MetricValues, aupr \in MetricValues :
          \E l \in ScenarioLossAt(epoch + 1) : Validate(auc, aupr, l)

ScenarioSpec == ScenarioInit /\ [][ScenarioNext]_vars

\* The program is one sequential thread: it takes its next step whenever it
\* has one.
FairSpec == Spec /\ WF_vars(Next)

\* ------------------------------------------------------------- properties
CheckpointFile == "checkpoint.pt"
LogFile == "training_log.csv"
CurvesFile == "train_curves.jpg"
ResultsFile == "test_results.json"

Last(q) == q[Len(q)]

\* The least value among the submissions q (q not empty).
MinValue(q) ==
    CHOOSE v \in {q[i].value : i \in DOMAIN q} :
        \A i \in DOMAIN q : v <= q[i].value

\* Submission i is strictly below every submission before it.
ImprovingAt(i) ==
    i = 1 \/ submitted[i].value < MinValue(SubSeq(submitted, 1, i - 1))

\* The first submission that holds the least value.
BestIndex ==
    CHOOSE i \in DOMAIN submitted :
        /\ submitted[i].value = MinValue(submitted)
        /\ \A j \in 1..(i - 1) : submitted[j].value > submitted[i].value

SubmissionsOf(e) == {i \in DOMAIN submitted : submitted[i].epoch = e}

\* train() has left the epoch loop (by exhaustion or by break).
LoopLeft ==
    \/ pc \in {"curves", "return", "t_load", "t_forward", "t_report", "done"}
    \/ pc = "error" /\ failed_at \in {"return", "t_load", "t_report"}

\* train() has returned normally to train_test().
TrainReturned ==
    \/ pc \in {"t_load", "t_forward", "t_report", "done"}
    \/ pc = "error" /\ failed_at \in {"t_load", "t_report"}

\* test() has gone past its checkpoint load, one way or the other.
LoadAttempted ==
    \/ pc \in {"t_forward", "t_report", "done"}
    \/ pc = "error" /\ failed_at \in {"t_load", "t_report"}

CheckpointLoadable ==
    /\ CheckpointFile \in DOMAIN files
    /\ files[CheckpointFile].kind = "state_dict"

\* C1: checkpoint.pt is written in an epoch exactly when the value submitted
\* in that epoch is strictly below every value submitted before it (or is the
\* first): each submission saved iff it improved, and the file was written
\* once per improving submission and never otherwise.
C1_CheckpointIffImproved ==
    /\ \A i \in DOMAIN submitted : submitted[i].save <=> ImprovingAt(i)
    /\ Written(writes, CheckpointFile)
         = Cardinality({i \in DOMAIN submitted : ImprovingAt(i)})

\* C1 witness: a submission equal to the running best was made and did not
\* rewrite the checkpoint, which two improving submissions had written.
C1_Witness ==
    /\ Len(submitted) = 3
    /\ submitted[1].value > submitted[2].value
    /\ submitted[3].value = submitted[2].value
    /\ Written(writes, CheckpointFile) = 2

\* What C2 says of the controller in a state.
C2_Body ==
    /\ early_stopping.counter \in 0..patience
    /\ (pc = "check" /\ SubmissionsOf(epoch + 1) # {}
          /\ ImprovingAt(Len(submitted)))
       => early_stopping.counter = 0
    /\ early_stopping.early_stop => early_stopping.counter = patience
    /\ (early_stopping.counter >= 1 /\ early_stopping.counter = patience)
       => early_stopping.early_stop
    /\ stop_sets <= 1
    /\ early_stopping.early_stop <=> stop_sets = 1

\* C2 as claimed: the stall counter stays within 0..patience, is 0 right
\* after an improving submission, the stop flag goes up at the submission
\* where the counter reaches patience, once, and stays up.
C2_Original == C2_Body

\* C2 amended: the same, for a patience of at least 1.
C2_Amended == patience >= 1 => C2_Body

\* C2 witness: patience 2 used up after an improvement reset the counter.
C2_Witness ==
    /\ patience = 2
    /\ early_stopping.early_stop
    /\ early_stopping.counter = 2
    /\ Len(submitted) = 3
    /\ pc = "done"

\* C3 as claimed: in the scenario the loop is left after exactly 5 epochs.
C3_Original ==
    LoopLeft => (epoch + 1 = 5 /\ val_passes = 5 /\ Len(submitted) = 5)

\* C3 amended: in the scenario (criterion loss, patience 2, at least 5
\* epochs, validation losses 0.9, 0.7, 0.8, 0.85, 0.95) the loop is left
\* after exactly 4 epochs, by early stop.
C3_Amended ==
    LoopLeft =>
        /\ epoch + 1 = 4
        /\ val_passes = 4
        /\ steps = 4 * TrainBatches
        /\ [i \in 1..Len(submitted) |-> submitted[i].value]
             = SubSeq(ScenarioLosses, 1, 4)
        /\ early_stopping.early_stop

\* C3 witness: the scenario ran to the end of train_test() in 4 epochs.
C3_Witness ==
    /\ pc = "done"
    /\ epochs >= 5
    /\ epoch + 1 = 4
    /\ early_stopping.early_stop

\* Epochs whose row should be in the log.
LoggedEpochs ==
    IF \/ pc \in {"train", "validate", "log"}
       \/ pc = "error" /\ failed_at = "validate"
    THEN epoch
    ELSE epoch + 1

\* C4: once train() has initialised it, training_log.csv is the 4-column
\* header followed by one 4-field row per completed epoch, numbered 1..k
\* with k <= epochs, the stopping epoch included; and no step rewrites or
\* removes a row.
C4_LogShape ==
    /\ [](Written(writes, LogFile) >= 1 =>
            LET log == files[LogFile]
            IN  /\ log[1] = LogHeader
                /\ Len(LogHeader) = 4
                /\ Len(log) - 1 = LoggedEpochs
                /\ Len(log) - 1 <= epochs
                /\ \A i \in 2..Len(log) : Len(log[i]) = 4 /\ log[i][1] = i - 1
                /\ early_stopping.early_stop =>
                       Len(log) - 1 = Last(submitted).epoch)
    /\ [][Written(writes, LogFile) >= 1 =>
            /\ Len(files'[LogFile]) >= Len(files[LogFile])
            /\ SubSeq(files'[LogFile], 1, Len(files[LogFile])) = files[LogFile]]_vars

\* C4 witness: an early stop before the budget ran out, its epoch logged.
C4_Witness ==
    /\ pc = "curves"
    /\ early_stopping.early_stop
    /\ epoch + 1 = 2
    /\ epochs = 3
    /\ Len(files[LogFile]) = 3

\* The scalar C5 names for a criterion.
CriterionScalar ==
    CASE early_stop_criteria = "auroc" -> 100 - auc_score.v
      [] early_stop_criteria = "auprc" -> 100 - aupr_score.v
      [] early_stop_criteria = "auprc+auroc" -> 100 - (aupr_score.v + auc_score.v)
      [] OTHER -> val_loss.v

\* C5 as claimed: after the submit step of every epoch that completed
\* validation, exactly one value was submitted for that epoch, whatever the
\* criterion string, and for the four named criteria it is the named scalar.
C5_Claim ==
    pc = "check" =>
        /\ Cardinality(SubmissionsOf(epoch + 1)) = 1
        /\ early_stop_criteria \in KnownCriteria =>
               \A i \in SubmissionsOf(epoch + 1) :
                   submitted[i].value = CriterionScalar

\* C6: the epoch loop runs at most `epochs` epochs; once the stop flag is up
\* there is no further training batch, validation pass, log row or
\* submission; every run comes to its end, and one that stopped early ends
\* with train_curves.jpg written exactly once and train() returned.
C6_Terminates ==
    /\ [](/\ epoch + 1 <= epochs
          /\ val_passes <= epochs
          /\ steps <= epochs * TrainBatches
          /\ Written(writes, CurvesFile) <= 1
          /\ TrainReturned => Written(writes, CurvesFile) = 1
          /\ (early_stopping.early_stop /\ pc \in {"done", "error"})
                => TrainReturned)
    /\ [][early_stopping.early_stop =>
            /\ UNCHANGED <<steps, train_fwd, val_passes, submitted>>
            /\ Written(writes', LogFile) = Written(writes, LogFile)]_vars
    /\ <>(pc \in {"done", "error"})

\* C6 witness: train() returned after an early stop that left budget unused.
C6_Witness ==
    /\ pc = "t_load"
    /\ early_stopping.early_stop
    /\ epoch + 1 < epochs
    /\ Written(writes, CurvesFile) = 1

\* C7: in test() no forward pass runs before the checkpoint is loaded;
\* test_results.json is written only after the load and one complete pass;
\* with checkpoint.pt missing or unloadable test() ends in an error with no
\* forward pass and test_results.json untouched.
C7_LoadFirst ==
    /\ test_fwd > 0 => loads = 1
    /\ Written(writes, ResultsFile) >= 1 => (loads = 1 /\ test_fwd = EvalBatches)
    /\ (LoadAttempted /\ ~CheckpointLoadable) =>
           /\ pc = "error"
           /\ failed_at = "t_load"
           /\ loads = 0
           /\ test_fwd = 0
           /\ Written(writes, ResultsFile) = 0

\* C7 witness: test() failed at the load because no checkpoint.pt exists.
C7_Witness ==
    /\ pc = "error"
    /\ failed_at = "t_load"
    /\ CheckpointFile \notin DOMAIN files

C9_UnknownModelFails ==
    model_type \notin {"grud", "ipnets", "seft", "transformer", "mamba"} =>
        /\ pc \in {"construct", "error"}
        /\ pc = "error" => failed_at = "construct"
        /\ train_fwd = 0
        /\ steps = 0
        /\ val_passes = 0
        /\ writes = << >>

\* C9 witness: the run with an unknown model type has ended in the error.
C9_Witness ==
    /\ model_type = "lstm"
    /\ pc = "error"
    /\ failed_at = "construct"

\* C10 as claimed: whenever train() has returned normally, this run wrote
\* checkpoint.pt at least once.
C10_Claim ==
    TrainReturned => Written(writes, CheckpointFile) >= 1

====
